---------------------------- MODULE Spec2Model ----------------------------
(***************************************************************************)
(* Release-version resolution and recipe patching of the conda-forge       *)
(* feedstock updaters (update_go_releases.py, update_nodejs_releases.py,   *)
(* feedstock_utils.py).                                                    *)
(*                                                                         *)
(* Text is modelled by its tokens.  A version string such as "1.20.14" is  *)
(* the sequence of its dot-separated components, each component the        *)
(* sequence of its decimal digits: <<<<1>>, <<2,0>>, <<1,4>>>>.  So        *)
(* "1.20.14" and "1.20.014" are different strings that parse to the same   *)
(* version.  None (and the empty string, equally falsy in Python) is the   *)
(* empty sequence.                                                         *)
(***************************************************************************)
EXTENDS Integers, Sequences, FiniteSets, TLC

VARIABLES
    pc,                \* position of the modelled run
    ecosystem,         \* "go" | "nodejs" | "utils": the script that runs
    current_version,   \* version string read from the branch's recipe, or None
    new_version,       \* candidate / target version string
    needs_update,      \* the version gate's decision
    tags,              \* tag names fetched from the upstream repository so far
    target_series,     \* the tracked series
    latest_by_series,  \* the resolver's result: series -> version string
    recipe_file,       \* the recipe file of the checked-out branch, or "none"
    lines,             \* its lines as read by readlines()
    sha256_mappings,   \* the hash provider's result
    updated_lines,     \* the lines written back by writelines()
    newline,           \* the line terminator of the recipe file as checked out
    written_newline,   \* the line terminator of the file written back, "" before
    fetched,           \* the downloads that succeeded / the files the manifest listed
    commits,           \* the commits made on the update branch so far
    effects,           \* commands and file writes the current unit has run
    exc,               \* the exception the current unit raised, if any
    result,            \* what update_feedstock returned for the current unit
    dry_run,           \* --dry-run / -n
    cloned,            \* feedstocks with a local clone
    units,             \* main's (series, feedstock) units, in processing order
    unit_idx,          \* index of the current unit
    calls,             \* indices of the units update_feedstock was called for
    updates_made,      \* main's three outcome lists
    updates_skipped,
    errors

gateVars == <<current_version, new_version, needs_update>>

resolverVars == <<tags, target_series, latest_by_series>>

patchVars ==
    <<recipe_file, lines, sha256_mappings, updated_lines, newline, written_newline,
      fetched, commits>>

unitVars == <<effects, exc, result>>

mainVars ==
    <<dry_run, cloned, units, unit_idx, calls, updates_made, updates_skipped, errors>>

vars == <<pc, ecosystem, gateVars, resolverVars, patchVars, unitVars, mainVars>>

None == <<>>

Unset == "unset"

-----------------------------------------------------------------------------
(* packaging.version.parse on dotted numeric strings *)

Min(a, b) == IF a <= b THEN a ELSE b

Max(a, b) == IF a >= b THEN a ELSE b

\* int() of one component: its digits read in base ten
RECURSIVE IntOf(_)
IntOf(digits) ==
    IF digits = <<>> THEN 0
    ELSE 10 * IntOf(SubSeq(digits, 1, Len(digits) - 1)) + digits[Len(digits)]

\* Version.release: the tuple of the components' integer values
Release(version_str) == [i \in 1..Len(version_str) |-> IntOf(version_str[i])]

\* _cmpkey drops the trailing zeros of the release, so 1.21 == 1.21.0
RECURSIVE StripTrailingZeros(_)
StripTrailingZeros(release) ==
    IF release # <<>> /\ release[Len(release)] = 0
    THEN StripTrailingZeros(SubSeq(release, 1, Len(release) - 1))
    ELSE release

\* Python's tuple comparison: the first differing element decides, and a
\* proper prefix is smaller
TupleLess(a, b) ==
    \E k \in 1..(Min(Len(a), Len(b)) + 1) :
        /\ \A j \in 1..(k - 1) : a[j] = b[j]
        /\ \/ k <= Len(a) /\ k <= Len(b) /\ a[k] < b[k]
           \/ k = Len(a) + 1 /\ k <= Len(b)

parse_version(version_str) == StripTrailingZeros(Release(version_str))

\* parse_version(a) <= parse_version(b)
VersionLE(a, b) ==
    \/ parse_version(a) = parse_version(b)
    \/ TupleLess(parse_version(a), parse_version(b))

-----------------------------------------------------------------------------
(* The version gate *)

\* a plausible slip: "<" for "<=", so an equal candidate is taken as new
check_version_needs_update_strict(current, new) ==
    IF current = None THEN TRUE
    ELSE IF /\ VersionLE(new, current)
            /\ parse_version(new) # parse_version(current) THEN FALSE
    ELSE TRUE

\* feedstock_utils.check_version_needs_update
check_version_needs_update(current, new) ==
    IF current = None THEN TRUE
    ELSE IF VersionLE(new, current) THEN FALSE
    ELSE TRUE

\* the same decision inlined in both update_feedstock functions: FALSE is
\* the early "return False", TRUE is falling through to the update
GateInline(current, new) ==
    IF current # None
    THEN (IF VersionLE(new, current) THEN FALSE ELSE TRUE)
    ELSE TRUE

\* the variables of the resolver, in a run that does not resolve
ResolverIdle ==
    /\ tags = <<>>
    /\ target_series = {}
    /\ latest_by_series = <<>>

\* the variables of the recipe rewrite, in a run that rewrites nothing
PatchIdle ==
    /\ recipe_file = "none"
    /\ lines = <<>>
    /\ sha256_mappings = <<>>
    /\ updated_lines = <<>>
    /\ newline = "LF"
    /\ written_newline = ""
    /\ fetched = {}
    /\ commits = <<>>

\* the variables of main and of the unit it runs, outside a run of main
MainIdle ==
    /\ effects = <<>>
    /\ exc = ""
    /\ result = Unset
    /\ dry_run = FALSE
    /\ cloned = {}
    /\ units = <<>>
    /\ unit_idx = 0
    /\ calls = <<>>
    /\ updates_made = <<>>
    /\ updates_skipped = <<>>
    /\ errors = <<>>

\* component strings and version strings the gate is exercised on
GateMinors == {<<2,0>>, <<2,1>>, <<9>>}

GatePatches == {<<0>>, <<9>>, <<1,3>>, <<1,4>>, <<0,1,4>>}

GateVersions ==
    {<<<<1>>, b, c>> : b \in GateMinors, c \in GatePatches}
        \cup {<<<<1>>, b>> : b \in GateMinors}

GateInit ==
    /\ pc = "gate"
    /\ ecosystem \in {"utils", "go", "nodejs"}
    /\ current_version \in GateVersions \cup {None}
    /\ new_version \in GateVersions
    /\ needs_update = Unset
    /\ ResolverIdle
    /\ PatchIdle
    /\ MainIdle

\* test_feedstock_utils calls the shared gate directly
UtilsGate ==
    /\ pc = "gate" /\ ecosystem = "utils"
    /\ needs_update' = check_version_needs_update(current_version, new_version)
    /\ pc' = "gate_done"
    /\ UNCHANGED <<ecosystem, current_version, new_version, resolverVars, patchVars,
                   unitVars, mainVars>>

\* update_feedstock's "Check current version" block
InlineGate ==
    /\ pc = "gate" /\ ecosystem \in {"go", "nodejs"}
    /\ needs_update' = GateInline(current_version, new_version)
    /\ pc' = "gate_done"
    /\ UNCHANGED <<ecosystem, current_version, new_version, resolverVars, patchVars,
                   unitVars, mainVars>>

GateNext == UtilsGate \/ InlineGate

SpecGate == GateInit /\ [][GateNext]_vars

-----------------------------------------------------------------------------
(* The version resolver *)
(* A tag name is [prefix, ver, suffix]: the text before the dotted number, *)
(* the dotted number, and the text after it ("go1.21rc1" has ver 1.21 and  *)
(* suffix "rc1").                                                          *)

Tag(prefix, ver, suffix) == [prefix |-> prefix, ver |-> ver, suffix |-> suffix]

\* tag names of golang/go the model fetches
GoTags ==
    { Tag("go", <<<<1>>, <<2,0>>, <<1>>>>, ""),       \* go1.20.1
      Tag("go", <<<<1>>, <<2,0>>, <<1,4>>>>, ""),     \* go1.20.14
      Tag("go", <<<<1>>, <<2,0>>, <<0,1>>>>, ""),     \* go1.20.01
      Tag("go", <<<<1>>, <<2,1>>, <<0>>>>, ""),       \* go1.21.0
      Tag("go", <<<<1>>, <<0,2,0>>, <<5>>>>, ""),     \* go1.020.5
      Tag("go", <<<<1>>, <<2,2>>, <<3>>>>, ""),       \* go1.22.3
      Tag("notgo", <<<<1>>, <<2,1>>, <<9>>>>, ""),    \* notgo1.21.9
      Tag("go", <<<<1>>, <<2,1>>>>, "rc1"),           \* go1.21rc1
      Tag("go", <<<<2>>, <<2,0>>, <<9>>>>, "") }      \* go2.20.9

\* tag names of nodejs/node the model fetches
NodeTags ==
    { Tag("v", <<<<2,0>>, <<1,1>>, <<0>>>>, ""),      \* v20.11.0
      Tag("v", <<<<2,0>>, <<9>>, <<0>>>>, ""),        \* v20.9.0
      Tag("v", <<<<2,0>>, <<0,9>>, <<0>>>>, ""),      \* v20.09.0
      Tag("v", <<<<2,2>>, <<0>>, <<0>>>>, ""),        \* v22.0.0
      Tag("v", <<<<2,1>>, <<1>>, <<0>>>>, ""),        \* v21.1.0
      Tag("v", <<<<0,2,0>>, <<9,9>>, <<0>>>>, ""),    \* v020.99.0
      Tag("node-v", <<<<2,0>>, <<9,9>>, <<0>>>>, ""), \* node-v20.99.0
      Tag("v", <<<<2,0>>, <<1,2>>>>, ""),             \* v20.12
      Tag("v", <<<<2,2>>, <<1>>, <<0>>>>, "-rc.1") }  \* v22.1.0-rc.1

UpstreamTags(eco) == IF eco = "go" THEN GoTags ELSE NodeTags

\* series sets the resolver is called with; main passes the first of each
GoTargets ==
    { {<<<<1>>, <<2,0>>>>, <<<<1>>, <<2,1>>>>, <<<<1>>, <<2,2>>>>, <<<<1>>, <<2,3>>>>},
      {<<<<1>>, <<2,0>>>>, <<<<1>>, <<2,1>>>>},
      {<<<<1>>, <<2,1>>>>} }

NodeTargets ==
    { {<<<<2,0>>>>, <<<<2,2>>>>},
      {<<<<2,0>>>>} }

Targets(eco) == IF eco = "go" THEN GoTargets ELSE NodeTargets

\* a slip: the pattern not anchored at the start, so "notgo1.21.9" matches
GoTagMatchUnanchored(tag) ==
    /\ tag.prefix \in {"go", "notgo"}
    /\ tag.suffix = ""
    /\ Len(tag.ver) = 3
    /\ tag.ver[1] = <<1>>

\* re.match(r'^go(1\.\d+\.\d+)$', tag_name)
GoTagMatch(tag) ==
    /\ tag.prefix = "go"
    /\ tag.suffix = ""
    /\ Len(tag.ver) = 3
    /\ tag.ver[1] = <<1>>
    /\ \A i \in 1..3 : tag.ver[i] # <<>>

\* re.match(r'^v(\d+\.\d+\.\d+)$', tag_name)
NodeTagMatch(tag) ==
    /\ tag.prefix = "v"
    /\ tag.suffix = ""
    /\ Len(tag.ver) = 3
    /\ \A i \in 1..3 : tag.ver[i] # <<>>

TagMatch(eco, tag) == IF eco = "go" THEN GoTagMatch(tag) ELSE NodeTagMatch(tag)

\* '.'.join(version_str.split('.')[:2]) for Go, version_str.split('.')[0]
\* for Node.js: the leading components as written in the tag
SeriesOf(eco, version_str) ==
    IF eco = "go" THEN SubSeq(version_str, 1, 2) ELSE SubSeq(version_str, 1, 1)

\* the dict built by the loop over the tags: each tracked series that got an
\* append, mapped to its version strings in tag order
versions_by_series(eco, tagList, target) ==
    LET kept(s) == SelectSeq(tagList,
                       LAMBDA t : TagMatch(eco, t) /\ SeriesOf(eco, t.ver) = s)
        keys == {s \in target : kept(s) # <<>>}
    IN  [s \in keys |-> [i \in 1..Len(kept(s)) |-> kept(s)[i].ver]]

\* max(versions, key=parse_version): the first of the greatest elements
MaxByVersion(versions) ==
    LET greatest(i) == \A j \in 1..Len(versions) : VersionLE(versions[j], versions[i])
        first == CHOOSE i \in 1..Len(versions) :
                    /\ greatest(i)
                    /\ \A j \in 1..(i - 1) : ~greatest(j)
    IN  versions[first]

\* get_go_versions_by_minor_series / get_nodejs_versions_by_minor_series,
\* after the tags are fetched
latest_versions(eco, tagList, target) ==
    LET by == versions_by_series(eco, tagList, target)
    IN  [s \in DOMAIN by |-> MaxByVersion(by[s])]

\* pages fetched at most
MaxTags == 3

GateIdle ==
    /\ current_version = None
    /\ new_version = None
    /\ needs_update = Unset

ResolverInit ==
    /\ pc = "fetch_tags"
    /\ ecosystem \in {"go", "nodejs"}
    /\ target_series \in Targets(ecosystem)
    /\ tags = <<>>
    /\ latest_by_series = <<>>
    /\ GateIdle
    /\ PatchIdle
    /\ MainIdle

\* get_github_tags: one more non-empty page arrives and is appended
FetchPage ==
    /\ pc = "fetch_tags"
    /\ Len(tags) < MaxTags
    /\ \E t \in UpstreamTags(ecosystem) : tags' = Append(tags, t)
    /\ UNCHANGED <<pc, ecosystem, target_series, latest_by_series, gateVars, patchVars,
                   unitVars, mainVars>>

\* get_github_tags: the empty page ends the loop and the tags are returned
FetchDone ==
    /\ pc = "fetch_tags"
    /\ pc' = "resolve"
    /\ UNCHANGED <<ecosystem, resolverVars, gateVars, patchVars, unitVars, mainVars>>

\* get_github_tags: response.raise_for_status() raises
FetchRaises ==
    /\ pc = "fetch_tags"
    /\ pc' = "raised"
    /\ UNCHANGED <<ecosystem, resolverVars, gateVars, patchVars, unitVars, mainVars>>

\* the grouping and selection of get_*_versions_by_minor_series
Resolve ==
    /\ pc = "resolve"
    /\ latest_by_series' = latest_versions(ecosystem, tags, target_series)
    /\ pc' = "resolved"
    /\ UNCHANGED <<ecosystem, tags, target_series, gateVars, patchVars, unitVars, mainVars>>

ResolverNext == FetchPage \/ FetchDone \/ FetchRaises \/ Resolve

SpecResolver == ResolverInit /\ [][ResolverNext]_vars

-----------------------------------------------------------------------------
(* Recipe lines *)
(* A recipe line is modelled by the tokens the patterns of the scan tell   *)
(* apart.  Every line keeps its own terminator, which no pattern touches.  *)

\* {% set version = "1.20.13" %}, or the same with single quotes
SetVer(quote, ver) == [kind |-> "setver", quote |-> quote, ver |-> ver]

\* "  version: 20.11.0" (bare), "  version: "20.11.0"" (quoted),
\* "  version: ${{ version }}" (ref)
VersionField(indent, form, ver) ==
    [kind |-> "version", indent |-> indent, form |-> form, ver |-> ver]

\* "  number: 2"
Number(indent, value) == [kind |-> "number", indent |-> indent, value |-> value]

\* the text after "url: https://": host path, name, version, file.  The
\* name is "go" or a placeholder; the version is the literal lit when ph is
\* "" and the placeholder ph otherwise
UrlText(host, name, ph, lit, file) ==
    [host |-> host, name |-> name, ph |-> ph, lit |-> lit, file |-> file]

Url(text) == [kind |-> "url", url |-> text]

\* "  sha256: <digest>", with an optional trailing selector comment
Sha(indent, digest, comment) ==
    [kind |-> "sha", indent |-> indent, digest |-> digest, comment |-> comment]

\* "  - if: <cond>", indented to the column of its if key; the conds win-64
\* and win-arm64 stand for target_platform == "win-64" and
\* target_platform == "win-arm64"
IfLine(indent, cond) == [kind |-> "if", indent |-> indent, cond |-> cond]

\* any other line
Other(text) == [kind |-> "other", text |-> text]

\* a digest already in the recipe, and a sha256 value that is not 64 hex
\* digits (a template variable)
Stale == "stale"

NotHex == "nothex"

IsHex64(digest) == digest # NotHex

\* versions of the recipes and targets
v1_20_13 == <<<<1>>, <<2,0>>, <<1,3>>>>

v1_20_14 == <<<<1>>, <<2,0>>, <<1,4>>>>

v1_20_140 == <<<<1>>, <<2,0>>, <<1,4,0>>>>

v20_11_0 == <<<<2,0>>, <<1,1>>, <<0>>>>

v20_12_1 == <<<<2,0>>, <<1,2>>, <<1>>>>

-----------------------------------------------------------------------------
(* Hash providers *)

GoDl == "go.dev/dl/"

GoogleDl == "dl.google.com/go/"

\* the five URLs of get_go_sha256_mappings
GoUrls(version) ==
    { UrlText(GoogleDl, "go", "", version, "src.tar.gz"),
      UrlText(GoDl, "go", "", version, "linux-amd64.tar.gz"),
      UrlText(GoDl, "go", "", version, "windows-amd64.zip"),
      UrlText(GoDl, "go", "", version, "darwin-amd64.tar.gz"),
      UrlText(GoDl, "go", "", version, "darwin-arm64.tar.gz") }

\* compute_sha256_from_url: the digest of the bytes behind the URL
compute_sha256_from_url(url) ==
    CASE url.file = "src.tar.gz" -> "sha256(src.tar.gz)"
      [] url.file = "linux-amd64.tar.gz" -> "sha256(linux-amd64.tar.gz)"
      [] url.file = "windows-amd64.zip" -> "sha256(windows-amd64.zip)"
      [] url.file = "darwin-amd64.tar.gz" -> "sha256(darwin-amd64.tar.gz)"
      [] OTHER -> "sha256(darwin-arm64.tar.gz)"

\* a provider that gives up on the first failed download
get_go_sha256_mappingsAllOrNothing(version, succeeded) ==
    IF GoUrls(version) \subseteq succeeded
    THEN [u \in GoUrls(version) |-> compute_sha256_from_url(u)]
    ELSE <<>>

\* get_go_sha256_mappings when the downloads in `succeeded` succeed: a failed
\* download is skipped, the others keep their digests
get_go_sha256_mappings(version, succeeded) ==
    [u \in GoUrls(version) \cap succeeded |-> compute_sha256_from_url(u)]

\* the platforms of target_files in get_nodejs_sha256_mappings
NodePlatforms == {"unix", "win-x64", "win-arm64"}

\* get_nodejs_sha256_mappings when the manifest lists the files of `listed`
\* (none when the fetch failed): the digest the manifest gives each
get_nodejs_sha256_mappings(listed) ==
    [p \in NodePlatforms \cap listed |->
        CASE p = "unix" -> "sha256(node.tar.gz)"
          [] p = "win-x64" -> "sha256(win-x64.zip)"
          [] OTHER -> "sha256(win-arm64.zip)"]

\* outcomes of the downloads the model draws from: all succeed, none does,
\* only the source tarball, all but the Linux tarball
GoFetchOutcomes(version) ==
    { GoUrls(version),
      {},
      {UrlText(GoogleDl, "go", "", version, "src.tar.gz")},
      GoUrls(version) \ {UrlText(GoDl, "go", "", version, "linux-amd64.tar.gz")} }

\* manifests the model draws from: complete, fetch failed, source only,
\* Windows only
NodeFetchOutcomes == { NodePlatforms, {}, {"unix"}, {"win-x64", "win-arm64"} }

-----------------------------------------------------------------------------
(* The current-version readers *)

\* the first of the matching line numbers, 0 when there is none
FirstIndex(matching) ==
    IF matching = {} THEN 0
    ELSE CHOOSE i \in matching : \A j \in matching : i <= j

\* re.search(r'{%\s*set\s+version\s*=\s*["\']([^"\']+)["\']\s*%}', content)
MacroSearch(doc) ==
    LET i == FirstIndex({k \in 1..Len(doc) : doc[k].kind = "setver"})
    IN  IF i = 0 THEN None ELSE doc[i].ver

\* re.search(r'^\s*version:\s*([0-9.]+)', content, re.MULTILINE)
FieldSearch(doc) ==
    LET i == FirstIndex({k \in 1..Len(doc) :
                    doc[k].kind = "version" /\ doc[k].form = "bare"})
    IN  IF i = 0 THEN None ELSE doc[i].ver

\* update_go_releases.get_current_version_from_meta
get_current_version_from_meta(file, doc) ==
    IF file # "meta.yaml" THEN None ELSE MacroSearch(doc)

\* get_current_version_from_recipe (feedstock_utils and update_nodejs_releases)
\* on a feedstock holding the one recipe file `file`
get_current_version_from_recipe(file, doc) ==
    IF file = "recipe.yaml" /\ FieldSearch(doc) # None THEN FieldSearch(doc)
    ELSE IF file = "meta.yaml" /\ MacroSearch(doc) # None THEN MacroSearch(doc)
    ELSE None

\* the reader update_feedstock of the ecosystem calls
CurrentVersion(eco, file, doc) ==
    IF eco = "go" THEN get_current_version_from_meta(file, doc)
    ELSE get_current_version_from_recipe(file, doc)

-----------------------------------------------------------------------------
(* The line scan of update_feedstock *)

\* re.match(r'\s*{%\s*set\s+version\s*=', line)
MacroMatch(line) == line.kind = "setver"

\* a slip: the pattern without [^"]+, so the new version is put in front of
\* the old text instead of replacing it
MacroSubInserting(line, version) ==
    IF line.quote = "double" THEN [line EXCEPT !.ver = version \o line.ver] ELSE line

\* re.sub(r'({% set version = ")[^"]+(")', rf'\g<1>{new_version}\g<2>', line):
\* only the double-quoted form has the text of the pattern
MacroSub(line, version) ==
    IF line.quote = "double" THEN [line EXCEPT !.ver = version] ELSE line

\* re.match(r'^\s*version:\s*[0-9.]+', line)
FieldMatch(line) == line.kind = "version" /\ line.form = "bare"

\* re.sub(r'(^\s*version:\s*)[0-9.]+', rf'\g<1>{new_version}', line)
FieldSub(line, version) == [line EXCEPT !.ver = version]

\* re.match(r'\s+number:\s*\d+', line)
NumberMatch(line) == line.kind = "number" /\ line.indent > 0

\* a slip: the build number of a first build taken to be 1
NumberSubOne(line) == [line EXCEPT !.value = 1]

\* re.sub(r'(\s+number:\s*)\d+', r'\g<1>0', line)
NumberSub(line) == [line EXCEPT !.value = 0]

\* re.match(r'\s+sha256:\s*[a-fA-F0-9]{64}', line)
ShaMatch(line) == line.kind = "sha" /\ line.indent > 0 /\ IsHex64(line.digest)

\* re.sub(r'(\s+sha256:\s*)[a-fA-F0-9]{64}', rf'\g<1>{new_sha256}', line)
ShaSub(line, digest) == [line EXCEPT !.digest = digest]

\* the characters of a version string, -1 for the dot
RECURSIVE VersionText(_)
VersionText(version_str) ==
    IF version_str = <<>> THEN <<>>
    ELSE IF Len(version_str) = 1 THEN version_str[1]
    ELSE version_str[1] \o <<-1>> \o VersionText(Tail(version_str))

IsPrefix(a, b) == Len(a) <= Len(b) /\ SubSeq(b, 1, Len(a)) = a

\* no URL found: url_found stays None
NoUrl == UrlText("", "", "", <<>>, "")

\* url_template.replace('{{ version }}', v).replace('{{version}}', v)
\*             .replace('{{ name }}', 'go').replace('{{name}}', 'go')
ExpandTemplate(url, version) ==
    [ url EXCEPT
        !.ph = IF url.ph \in {"{{ version }}", "{{version}}"} THEN "" ELSE url.ph,
        !.lit = IF url.ph \in {"{{ version }}", "{{version}}"} THEN version ELSE url.lit,
        !.name = IF url.name \in {"{{ name }}", "{{name}}"} THEN "go" ELSE url.name ]

\* the two searches on one line above the checksum line: the URL holding
\* "go<new_version>" literally, else a URL with {{ placeholders }}, expanded;
\* NoUrl when neither pattern matches
UrlOnLine(line, version) ==
    IF line.kind # "url" THEN NoUrl
    ELSE IF /\ line.url.name = "go" /\ line.url.ph = ""
            /\ IsPrefix(VersionText(version), VersionText(line.url.lit))
         THEN line.url
    ELSE IF line.url.name # "go" \/ line.url.ph # ""
         THEN ExpandTemplate(line.url, version)
    ELSE NoUrl

\* the stop argument of range(i-1, max(0, i-10), -1)
Lookback == 10

\* the lowest line the backward scan looks at, for the checksum on line i
\* (lines counted from 1; Python's i is i - 1 and its stop is exclusive)
LowestScanned(i) == Max(0, i - 1 - Lookback) + 2

\* for j in range(i-1, max(0, i-10), -1): the first line upward that one of
\* the patterns matches decides url_found
RECURSIVE SearchUp(_, _, _, _)
SearchUp(doc, j, lowest, version) ==
    IF j < lowest THEN NoUrl
    ELSE IF UrlOnLine(doc[j], version) # NoUrl THEN UrlOnLine(doc[j], version)
    ELSE SearchUp(doc, j - 1, lowest, version)

\* a slip: an unresolved checksum blanked instead of kept
GoChecksumOrBlank(doc, i, version, mapping) ==
    LET url_found == SearchUp(doc, i - 1, LowestScanned(i), version)
    IN  IF url_found # NoUrl /\ url_found \in DOMAIN mapping
        THEN ShaSub(doc[i], mapping[url_found])
        ELSE ShaSub(doc[i], "")

\* the sha256 branch of the Go scan
GoChecksum(doc, i, version, mapping) ==
    LET url_found == SearchUp(doc, i - 1, LowestScanned(i), version)
    IN  IF url_found # NoUrl /\ url_found \in DOMAIN mapping
        THEN ShaSub(doc[i], mapping[url_found])
        ELSE doc[i]

\* one turn of the while loop of update_go_releases.update_feedstock
GoLine(doc, i, version, mapping) ==
    IF MacroMatch(doc[i]) THEN MacroSub(doc[i], version)
    ELSE IF NumberMatch(doc[i]) THEN NumberSub(doc[i])
    ELSE IF ShaMatch(doc[i]) THEN GoChecksum(doc, i, version, mapping)
    ELSE doc[i]

\* a slip: blank lines not written back
GoScanDroppingBlanks(doc, version, mapping) ==
    SelectSeq([i \in 1..Len(doc) |-> GoLine(doc, i, version, mapping)],
              LAMBDA l : l # Other(""))

\* the whole loop: updated_lines
GoScan(doc, version, mapping) ==
    [i \in 1..Len(doc) |-> GoLine(doc, i, version, mapping)]

\* current_platform = None
NoPlatform == ""

\* the platform a selector line sets, NoPlatform when the line is none:
\* re.search(r'if:\s*unix', line), r'if:\s*target_platform\s*==\s*"win-64"',
\* r'if:\s*target_platform\s*==\s*"win-arm64"'
SelectorOf(line) ==
    IF line.kind # "if" THEN NoPlatform
    ELSE CASE line.cond = "unix" -> "unix"
           [] line.cond = "win-64" -> "win-x64"
           [] line.cond = "win-arm64" -> "win-arm64"
           [] OTHER -> NoPlatform

\* a slip: the platform taken from the first selector only
PlatformAfterFirstOnly(line, platform) ==
    IF FieldMatch(line) \/ NumberMatch(line) THEN platform
    ELSE IF SelectorOf(line) # NoPlatform /\ platform = NoPlatform THEN SelectorOf(line)
    ELSE platform

\* current_platform after the line, given it before the line
PlatformAfter(line, platform) ==
    IF FieldMatch(line) \/ NumberMatch(line) THEN platform
    ELSE IF SelectorOf(line) # NoPlatform THEN SelectorOf(line)
    ELSE platform

\* one turn of the for loop on a recipe.yaml
RecipeLine(line, platform, version, mapping) ==
    IF FieldMatch(line) THEN FieldSub(line, version)
    ELSE IF NumberMatch(line) THEN NumberSub(line)
    ELSE IF SelectorOf(line) # NoPlatform THEN line
    ELSE IF ShaMatch(line) /\ platform # NoPlatform
         THEN (IF platform \in DOMAIN mapping
               THEN ShaSub(line, mapping[platform]) ELSE line)
    ELSE line

\* the for loop on a recipe.yaml from line i on, current_platform carried
RECURSIVE RecipeScanFrom(_, _, _, _, _)
RecipeScanFrom(doc, i, platform, version, mapping) ==
    IF i > Len(doc) THEN <<>>
    ELSE <<RecipeLine(doc[i], platform, version, mapping)>>
            \o RecipeScanFrom(doc, i + 1, PlatformAfter(doc[i], platform),
                              version, mapping)

RecipeScan(doc, version, mapping) ==
    RecipeScanFrom(doc, 1, NoPlatform, version, mapping)

\* one turn of the for loop on a meta.yaml of the Node.js feedstock
NodeMetaLine(line, version, mapping) ==
    IF MacroMatch(line) THEN MacroSub(line, version)
    ELSE IF NumberMatch(line) THEN NumberSub(line)
    ELSE IF "unix" \in DOMAIN mapping /\ ShaMatch(line)
         THEN ShaSub(line, mapping["unix"])
    ELSE line

NodeMetaScan(doc, version, mapping) ==
    [i \in 1..Len(doc) |-> NodeMetaLine(doc[i], version, mapping)]

\* the scan update_feedstock runs on the recipe file it found
Scan(eco, file, doc, version, mapping) ==
    IF eco = "go" THEN GoScan(doc, version, mapping)
    ELSE IF file = "recipe.yaml" THEN RecipeScan(doc, version, mapping)
    ELSE NodeMetaScan(doc, version, mapping)

-----------------------------------------------------------------------------
(* Recipes the scan is run on *)

\* lines of a Go meta.yaml
GoAlphabet ==
    { SetVer("double", v1_20_13),
      SetVer("single", v1_20_13),
      Number(2, 2),
      Number(0, 2),
      Url(UrlText(GoDl, "go", "", v1_20_14, "linux-amd64.tar.gz")),
      Url(UrlText(GoDl, "go", "", v1_20_13, "linux-amd64.tar.gz")),
      Url(UrlText(GoogleDl, "go", "{{ version }}", <<>>, "src.tar.gz")),
      Sha(2, Stale, ""),
      Sha(2, NotHex, ""),
      Other("") }

\* lines of a Node.js meta.yaml
NodeMetaAlphabet ==
    { SetVer("double", v20_11_0),
      SetVer("single", v20_11_0),
      Number(2, 2),
      Number(0, 2),
      Sha(2, Stale, ""),
      Sha(2, Stale, "# [win]"),
      Sha(2, NotHex, ""),
      Other("url"),
      Other("") }

\* lines of a Node.js recipe.yaml
RecipeAlphabet ==
    { VersionField(2, "bare", v20_11_0),
      VersionField(2, "quoted", v20_11_0),
      VersionField(2, "ref", <<>>),
      Number(2, 2),
      IfLine(4, "unix"),
      IfLine(4, "win-64"),
      IfLine(4, "win-arm64"),
      Sha(4, Stale, ""),
      Sha(6, Stale, ""),
      Other("url"),
      Other("") }

\* n other lines
Pad(n) == [i \in 1..n |-> Other("")]

\* longer Go recipes: the end-to-end scenario, the other URL spellings, and a
\* URL line followed by n other lines and the checksum, with and without a
\* line before the URL
GoScenarios ==
    { << SetVer("double", v1_20_13), Number(2, 2), Number(2, 12),
         Url(UrlText(GoDl, "go", "", v1_20_14, "linux-amd64.tar.gz")),
         Sha(2, Stale, "") >>,
      << Other(""), Url(UrlText(GoogleDl, "{{name}}", "{{version}}", <<>>, "src.tar.gz")),
         Sha(4, Stale, "# [linux]") >>,
      << Other(""), Url(UrlText(GoogleDl, "{{ name }}", "", v1_20_14, "src.tar.gz")),
         Sha(2, Stale, "") >>,
      << Other(""), Url(UrlText(GoDl, "go", "{{  version  }}", <<>>, "linux-amd64.tar.gz")),
         Sha(2, Stale, "") >>,
      << Other(""), Url(UrlText(GoDl, "go", "", v1_20_14, "linux-amd64.tar.gz")),
         Url(UrlText(GoDl, "go", "", v1_20_140, "linux-amd64.tar.gz")),
         Sha(2, Stale, "") >>,
      << Other(""), Url(UrlText(GoDl, "go", "", v1_20_14, "windows-amd64.zip")),
         Sha(0, Stale, "") >> }
    \cup { <<Other(""), Url(UrlText(GoDl, "go", "", v1_20_14, "linux-amd64.tar.gz"))>>
             \o Pad(n) \o <<Sha(2, Stale, "")>> : n \in (Lookback - 2)..(Lookback - 1) }
    \cup { <<Url(UrlText(GoDl, "go", "", v1_20_14, "linux-amd64.tar.gz"))>>
             \o Pad(n) \o <<Sha(2, Stale, "")>> : n \in (Lookback - 2)..(Lookback - 1) }

\* longer Node.js recipes: a recipe.yaml with one source per platform
RecipeScenarios ==
    { << VersionField(2, "bare", v20_11_0), Number(2, 12),
         IfLine(4, "unix"), Other("url"), Sha(6, Stale, ""),
         IfLine(4, "win-64"), Other("url"), Sha(6, Stale, ""),
         IfLine(4, "win-arm64"), Other("url"), Sha(6, Stale, "") >>,
      << IfLine(4, "osx"), Sha(6, Stale, ""), IfLine(4, "unix"), Sha(6, Stale, ""),
         Other(""), Sha(2, Stale, "") >> }

NodeMetaScenarios ==
    { << SetVer("double", v20_11_0), Other("url"), Sha(2, Stale, ""),
         Number(2, 12), Number(2, 0) >> }

\* at most this many lines in the recipes drawn line by line
MaxLines == 3

DocsOver(alphabet) == UNION {[1..n -> alphabet] : n \in 0..MaxLines}

\* the recipe files a feedstock of the ecosystem may hold ("none": the file
\* update_feedstock opens is not there)
RecipeFiles(eco) ==
    IF eco = "go" THEN {"meta.yaml", "none"}
    ELSE {"recipe.yaml", "meta.yaml", "none"}

Docs(eco, file) ==
    IF file = "none" THEN {<<>>}
    ELSE IF eco = "go" THEN DocsOver(GoAlphabet) \cup GoScenarios
    ELSE IF file = "recipe.yaml" THEN DocsOver(RecipeAlphabet) \cup RecipeScenarios
    ELSE DocsOver(NodeMetaAlphabet) \cup NodeMetaScenarios

\* line terminators of a recipe file on disk: "\n" (LF) or "\r\n" (CRLF)
Newlines(file) == IF file = "none" THEN {"LF"} ELSE {"LF", "CRLF"}

\* open(path, "r"): universal newlines, every terminator is read as "\n"
ReadNewline(terminator) == IF terminator = "CRLF" THEN "LF" ELSE terminator

\* open(path, "w"): "\n" is written as os.linesep, "\n" on POSIX
WriteNewline(terminator) == terminator

\* the release the unit updates to
TargetVersion(eco) == IF eco = "go" THEN v1_20_14 ELSE v20_12_1

\* update_feedstock after the update branch is created: the hash fetch, the
\* rewrite of the recipe, up to the commit
PatchInit ==
    /\ pc = "fetch_hashes"
    /\ ecosystem \in {"go", "nodejs"}
    /\ recipe_file \in RecipeFiles(ecosystem)
    /\ lines \in Docs(ecosystem, recipe_file)
    /\ current_version = CurrentVersion(ecosystem, recipe_file, lines)
    /\ new_version = TargetVersion(ecosystem)
    /\ needs_update = TRUE
    /\ sha256_mappings = <<>>
    /\ updated_lines = <<>>
    /\ newline \in Newlines(recipe_file)
    /\ written_newline = ""
    /\ fetched = {}
    /\ commits = <<>>
    /\ ResolverIdle
    /\ MainIdle

\* get_go_sha256_mappings inside try/except: a failed download is skipped
FetchGoHashes ==
    /\ pc = "fetch_hashes" /\ ecosystem = "go"
    /\ \E succeeded \in GoFetchOutcomes(new_version) :
           /\ fetched' = succeeded
           /\ sha256_mappings' = get_go_sha256_mappings(new_version, succeeded)
    /\ effects' = Append(effects, "fetch_hashes")
    /\ pc' = "rewrite"
    /\ UNCHANGED <<ecosystem, gateVars, resolverVars, recipe_file, lines, updated_lines,
                   newline, written_newline, commits, exc, result, mainVars>>

\* get_nodejs_sha256_mappings: a failed manifest fetch gives the empty dict
FetchNodeHashes ==
    /\ pc = "fetch_hashes" /\ ecosystem = "nodejs"
    /\ \E listed \in NodeFetchOutcomes :
           /\ fetched' = listed
           /\ sha256_mappings' = get_nodejs_sha256_mappings(listed)
    /\ effects' = Append(effects, "fetch_hashes")
    /\ pc' = "rewrite"
    /\ UNCHANGED <<ecosystem, gateVars, resolverVars, recipe_file, lines, updated_lines,
                   newline, written_newline, commits, exc, result, mainVars>>

\* readlines(), the scan, writelines(); `lines` keeps what was read
RewriteRecipe ==
    /\ pc = "rewrite" /\ recipe_file # "none"
    /\ updated_lines' = Scan(ecosystem, recipe_file, lines, new_version, sha256_mappings)
    /\ written_newline' = WriteNewline(ReadNewline(newline))
    /\ effects' = Append(effects, "write_recipe")
    /\ pc' = "commit"
    /\ UNCHANGED <<ecosystem, gateVars, resolverVars, recipe_file, lines, sha256_mappings,
                   newline, fetched, commits, exc, result, mainVars>>

\* open() of a missing meta.yaml, or FileNotFoundError("Neither recipe.yaml
\* nor meta.yaml found")
RewriteRaises ==
    /\ pc = "rewrite" /\ recipe_file = "none"
    /\ exc' = "FileNotFoundError"
    /\ pc' = "raised"
    /\ UNCHANGED <<ecosystem, gateVars, resolverVars, patchVars, effects, result, mainVars>>

PatchNext == FetchGoHashes \/ FetchNodeHashes \/ RewriteRecipe \/ RewriteRaises

SpecPatch == PatchInit /\ [][PatchNext]_vars

-----------------------------------------------------------------------------
(* main: the resolver, then update_feedstock for every unit *)

\* target_series of main
MainTargets(eco) ==
    IF eco = "go"
    THEN {<<<<1>>, <<2,0>>>>, <<<<1>>, <<2,1>>>>, <<<<1>>, <<2,2>>>>, <<<<1>>, <<2,3>>>>}
    ELSE {<<<<2,0>>>>, <<<<2,2>>>>}

\* the feedstocks main loops over for each series
Feedstocks(eco) ==
    IF eco = "go" THEN <<"go-feedstock", "go-activation-feedstock">>
    ELSE <<"nodejs-feedstock">>

FeedstockNames(eco) == {Feedstocks(eco)[i] : i \in 1..Len(Feedstocks(eco))}

\* tag lists a run of main fetches: none, one series, two series (newest
\* series first, as GitHub lists them), no tracked release
MainTagLists(eco) ==
    IF eco = "go"
    THEN { <<>>,
           <<Tag("go", <<<<1>>, <<2,0>>, <<1,4>>>>, "")>>,
           <<Tag("go", <<<<1>>, <<2,1>>, <<0>>>>, ""), Tag("go", <<<<1>>, <<2,0>>, <<1>>>>, "")>>,
           <<Tag("notgo", <<<<1>>, <<2,1>>, <<9>>>>, "")>> }
    ELSE { <<>>,
           <<Tag("v", <<<<2,0>>, <<1,1>>, <<0>>>>, "")>>,
           <<Tag("v", <<<<2,2>>, <<0>>, <<0>>>>, ""), Tag("v", <<<<2,0>>, <<9>>, <<0>>>>, "")>>,
           <<Tag("v", <<<<2,1>>, <<1>>, <<0>>>>, "")>> }

\* the order of sorted(latest_github_versions.items()): by the series string
\* for Go, by key=int(series) for Node.js
SeriesBefore(eco, a, b) ==
    IF eco = "go" THEN TupleLess(VersionText(a), VersionText(b))
    ELSE IntOf(a[1]) < IntOf(b[1])

RECURSIVE SortedSeries(_, _)
SortedSeries(eco, keys) ==
    IF keys = {} THEN <<>>
    ELSE LET first == CHOOSE s \in keys : \A t \in keys \ {s} : SeriesBefore(eco, s, t)
         IN  <<first>> \o SortedSeries(eco, keys \ {first})

\* a slip: the loops nested the other way round, each feedstock over all
\* series
UnitsOfFeedstockFirst(eco, latest) ==
    LET series == SortedSeries(eco, DOMAIN latest)
        m == Len(series)
    IN  [k \in 1..(m * Len(Feedstocks(eco))) |->
            [feedstock |-> Feedstocks(eco)[((k - 1) \div m) + 1],
             series |-> series[((k - 1) % m) + 1],
             version |-> latest[series[((k - 1) % m) + 1]]]]

\* the calls of update_feedstock main's loops make, in order: for each
\* series in sorted order, each feedstock
UnitsOf(eco, latest) ==
    LET series == SortedSeries(eco, DOMAIN latest)
        n == Len(Feedstocks(eco))
    IN  [k \in 1..(Len(series) * n) |->
            [feedstock |-> Feedstocks(eco)[((k - 1) % n) + 1],
             series |-> series[((k - 1) \div n) + 1],
             version |-> latest[series[((k - 1) \div n) + 1]]]]

\* a release older than every candidate of main's runs
OlderVersion(eco) ==
    IF eco = "go" THEN <<<<1>>, <<1,9>>, <<5>>>> ELSE <<<<1,8>>, <<2,0>>, <<1>>>>

\* recipes the checked-out branch may hold in a run of main: up to date,
\* behind with a checksum to refresh, and without a version declaration
MainDocs(eco, file, version) ==
    IF file = "none" THEN {<<>>}
    ELSE LET decl(v) == IF file = "recipe.yaml" THEN VersionField(2, "bare", v)
                        ELSE SetVer("double", v)
         IN  { <<decl(version), Number(2, 0)>>,
               <<decl(OlderVersion(eco)), Sha(2, Stale, ""), Number(2, 2)>>,
               <<Number(2, 2)>> }

Init ==
    /\ pc = "main"
    /\ ecosystem \in {"go", "nodejs"}
    /\ dry_run \in BOOLEAN
    /\ cloned \in SUBSET FeedstockNames(ecosystem)
    /\ target_series = MainTargets(ecosystem)
    /\ tags = <<>>
    /\ latest_by_series = <<>>
    /\ units = <<>>
    /\ unit_idx = 0
    /\ calls = <<>>
    /\ updates_made = <<>>
    /\ updates_skipped = <<>>
    /\ errors = <<>>
    /\ effects = <<>>
    /\ exc = ""
    /\ result = Unset
    /\ GateIdle
    /\ PatchIdle

\* main up to the loop: the resolver returns; an empty result ends the run
MainResolve ==
    /\ pc = "main"
    /\ \E tagList \in MainTagLists(ecosystem) :
          LET latest == latest_versions(ecosystem, tagList, target_series)
          IN  /\ latest_by_series' = latest
              /\ IF latest = <<>>
                 THEN pc' = "exit" /\ UNCHANGED <<units, unit_idx>>
                 ELSE /\ units' = UnitsOf(ecosystem, latest)
                      /\ unit_idx' = 1
                      /\ pc' = "loop"
    /\ UNCHANGED <<ecosystem, tags, target_series, gateVars, patchVars, unitVars,
                   dry_run, cloned, calls, updates_made, updates_skipped, errors>>

\* get_github_tags raises inside the resolver: nothing in main catches it
MainResolveRaises ==
    /\ pc = "main"
    /\ pc' = "aborted"
    /\ UNCHANGED <<ecosystem, resolverVars, gateVars, patchVars, unitVars, mainVars>>

\* the loop calls update_feedstock for the next unit
CallUpdateFeedstock ==
    /\ pc = "loop" /\ unit_idx \in 1..Len(units)
    /\ new_version' = units[unit_idx].version
    /\ calls' = Append(calls, unit_idx)
    /\ pc' = "fork"
    /\ UNCHANGED <<ecosystem, current_version, needs_update, resolverVars, patchVars,
                   unitVars, dry_run, cloned, units, unit_idx, updates_made,
                   updates_skipped, errors>>

\* "Fork and clone if needed": git fetch upstream in an existing clone, gh
\* repo fork --clone otherwise; check=True raises on a non-zero exit
ForkOrFetch ==
    /\ pc = "fork"
    /\ LET feedstock == units[unit_idx].feedstock
       IN  /\ effects' = Append(effects, IF feedstock \in cloned THEN "fetch_upstream"
                                         ELSE "fork_clone")
           /\ \/ /\ cloned' = cloned \cup {feedstock}
                 /\ pc' = "checkout"
                 /\ UNCHANGED exc
              \/ /\ exc' = "CalledProcessError"
                 /\ pc' = "raised"
                 /\ UNCHANGED cloned
    /\ UNCHANGED <<ecosystem, gateVars, resolverVars, patchVars, result, dry_run, units,
                   unit_idx, calls, updates_made, updates_skipped, errors>>

\* a slip: the except clause left out, so the failure leaves the unit as an
\* exception
AfterCheckoutRaising(returncode) ==
    IF returncode # 0 THEN "raise" ELSE "read_version"

\* "except subprocess.CalledProcessError: ... return False" around the
\* checkout and the pull
AfterCheckout(returncode) ==
    IF returncode # 0 THEN "return_false" ELSE "read_version"

\* git checkout <series>.x and git pull upstream <series>.x inside the try:
\* a non-zero exit of either is caught and update_feedstock returns False;
\* after both the working tree holds the branch's recipe
CheckoutBranch ==
    /\ pc = "checkout"
    /\ \E ran \in {<<"checkout">>, <<"checkout", "pull">>}, returncode \in {0, 1} :
          /\ Len(ran) = 1 => returncode # 0
          /\ effects' = effects \o ran
          /\ LET next == AfterCheckout(returncode)
             IN  IF next = "read_version"
                 THEN /\ \E file \in RecipeFiles(ecosystem) :
                            /\ recipe_file' = file
                            /\ lines' \in MainDocs(ecosystem, file, new_version)
                            /\ newline' \in Newlines(file)
                      /\ pc' = "read_version"
                      /\ UNCHANGED <<result, exc>>
                 ELSE /\ result' = (IF next = "return_false" THEN FALSE ELSE result)
                      /\ exc' = (IF next = "return_false" THEN exc ELSE "CalledProcessError")
                      /\ pc' = (IF next = "return_false" THEN "returned" ELSE "raised")
                      /\ UNCHANGED <<recipe_file, lines, newline>>
    /\ UNCHANGED <<ecosystem, gateVars, resolverVars, sha256_mappings, updated_lines,
                   written_newline, fetched, commits, mainVars>>

\* current_version = get_current_version_from_meta / _from_recipe(repo_path)
ReadCurrentVersion ==
    /\ pc = "read_version"
    /\ current_version' = CurrentVersion(ecosystem, recipe_file, lines)
    /\ pc' = "gate"
    /\ UNCHANGED <<ecosystem, new_version, needs_update, resolverVars, patchVars,
                   unitVars, mainVars>>

\* a slip: the dry-run test left out, so a dry run goes on to the update
AfterGateIgnoringDryRun(proceed, dry) ==
    IF ~proceed THEN "return_false" ELSE "create_branch"

\* what follows the gate: its "return False", the dry-run "return True", or
\* the creation of the update branch
AfterGate(proceed, dry) ==
    IF ~proceed THEN "return_false"
    ELSE IF dry THEN "return_true"
    ELSE "create_branch"

LeaveGate ==
    /\ pc = "gate_done"
    /\ LET next == AfterGate(needs_update, dry_run)
       IN  /\ result' = (CASE next = "return_false" -> FALSE
                           [] next = "return_true" -> TRUE
                           [] OTHER -> result)
           /\ pc' = IF next = "create_branch" THEN "create_branch" ELSE "returned"
    /\ UNCHANGED <<ecosystem, gateVars, resolverVars, patchVars, effects, exc, mainVars>>

\* git checkout -b update-<version>, check=True
CreateUpdateBranch ==
    /\ pc = "create_branch"
    /\ effects' = Append(effects, "checkout_b")
    /\ \/ pc' = "fetch_hashes" /\ UNCHANGED exc
       \/ pc' = "raised" /\ exc' = "CalledProcessError"
    /\ UNCHANGED <<ecosystem, gateVars, resolverVars, patchVars, result, mainVars>>

\* a slip: the commit run without check=True, so a non-zero exit goes on
AfterCommitUnchecked(returncode) == "rerender"

\* check=True of the recipe commit: a non-zero exit raises
AfterCommit(returncode) ==
    IF returncode # 0 THEN "raise" ELSE "rerender"

\* git add <recipe>, git commit -m "Update to <version>", both check=True:
\* a failed add raises before the commit is run; a commit that exits with
\* zero is on the update branch
CommitRecipe ==
    /\ pc = "commit"
    /\ \/ /\ effects' = effects \o <<"add">>
          /\ exc' = "CalledProcessError"
          /\ pc' = "raised"
          /\ UNCHANGED commits
       \/ \E returncode \in {0, 1} :
             LET next == AfterCommit(returncode)
             IN  /\ effects' = effects \o <<"add", "commit">>
                 /\ commits' = (IF returncode = 0 THEN Append(commits, "recipe")
                                ELSE commits)
                 /\ exc' = (IF next = "raise" THEN "CalledProcessError" ELSE exc)
                 /\ pc' = (IF next = "raise" THEN "raised" ELSE "rerender")
    /\ UNCHANGED <<ecosystem, gateVars, resolverVars, recipe_file, lines, sha256_mappings,
                   updated_lines, newline, written_newline, fetched, result, mainVars>>

\* a slip: the rerender run with check=True, so a non-zero exit raises
AfterRerenderChecked(returncode) ==
    IF returncode # 0 THEN "raise" ELSE "status"

\* "if result.returncode != 0": the warning and on to the push; otherwise
\* the git status check
AfterRerender(returncode) ==
    IF returncode # 0 THEN "warn" ELSE "status"

\* conda-smithy rerender without check=True: a non-zero exit prints the
\* warning; after a zero exit git status --porcelain, and git add -A and
\* git commit when it prints anything, all three check=True
Rerender ==
    /\ pc = "rerender"
    /\ \E returncode \in {0, 1} :
          LET next == AfterRerender(returncode)
          IN  IF next = "status"
              THEN \/ /\ \E ran \in {<<"rerender", "status">>,
                                     <<"rerender", "status", "add_all", "commit_rerender">>} :
                            /\ effects' = effects \o ran
                            /\ commits' = (IF Len(ran) = 4 THEN Append(commits, "rerender")
                                           ELSE commits)
                      /\ pc' = "push"
                      /\ UNCHANGED exc
                   \/ /\ \E ran \in {<<"rerender", "status">>,
                                     <<"rerender", "status", "add_all">>,
                                     <<"rerender", "status", "add_all", "commit_rerender">>} :
                            effects' = effects \o ran
                      /\ exc' = "CalledProcessError"
                      /\ pc' = "raised"
                      /\ UNCHANGED commits
              ELSE /\ effects' = effects \o (IF next = "warn" THEN <<"rerender", "warn_rerender">>
                                              ELSE <<"rerender">>)
                   /\ exc' = (IF next = "warn" THEN exc ELSE "CalledProcessError")
                   /\ pc' = (IF next = "warn" THEN "push" ELSE "raised")
                   /\ UNCHANGED commits
    /\ UNCHANGED <<ecosystem, gateVars, resolverVars, recipe_file, lines, sha256_mappings,
                   updated_lines, newline, written_newline, fetched, result, mainVars>>

\* git push -u origin update-<version>, check=True
PushBranch ==
    /\ pc = "push"
    /\ effects' = Append(effects, "push")
    /\ \/ pc' = "create_pr" /\ UNCHANGED exc
       \/ pc' = "raised" /\ exc' = "CalledProcessError"
    /\ UNCHANGED <<ecosystem, gateVars, resolverVars, patchVars, result, mainVars>>

\* gh pr create, check=True, then "return True"
CreatePullRequest ==
    /\ pc = "create_pr"
    /\ effects' = Append(effects, "pr_create")
    /\ \/ pc' = "returned" /\ result' = TRUE /\ UNCHANGED exc
       \/ pc' = "raised" /\ exc' = "CalledProcessError" /\ UNCHANGED result
    /\ UNCHANGED <<ecosystem, gateVars, resolverVars, patchVars, mainVars>>

\* the entries main appends: (feedstock, series, x) in the Go script,
\* (series, x) in the Node.js script with its single feedstock
MadeEntry(eco, unit) ==
    IF eco = "go"
    THEN [feedstock |-> unit.feedstock, series |-> unit.series, version |-> unit.version]
    ELSE [series |-> unit.series, version |-> unit.version]

ErrorEntry(eco, unit, e) ==
    IF eco = "go"
    THEN [feedstock |-> unit.feedstock, series |-> unit.series, error |-> e]
    ELSE [series |-> unit.series, error |-> e]

\* the call is over: its locals are gone, and the next call checks out its
\* own branch
CallOver ==
    /\ current_version' = None
    /\ new_version' = None
    /\ needs_update' = Unset
    /\ recipe_file' = "none"
    /\ lines' = <<>>
    /\ sha256_mappings' = <<>>
    /\ updated_lines' = <<>>
    /\ newline' = "LF"
    /\ written_newline' = ""
    /\ fetched' = {}
    /\ commits' = <<>>
    /\ effects' = <<>>
    /\ exc' = ""
    /\ result' = Unset

\* update_feedstock returned: "if result:" picks the list
RecordResult ==
    /\ pc = "returned"
    /\ IF result = TRUE
       THEN /\ updates_made' = Append(updates_made, MadeEntry(ecosystem, units[unit_idx]))
            /\ UNCHANGED updates_skipped
       ELSE /\ updates_skipped' = Append(updates_skipped, MadeEntry(ecosystem, units[unit_idx]))
            /\ UNCHANGED updates_made
    /\ unit_idx' = unit_idx + 1
    /\ pc' = "loop"
    /\ CallOver
    /\ UNCHANGED <<ecosystem, resolverVars, dry_run, cloned, units, calls, errors>>

\* a slip: the handler leaving the loop instead of continuing it
AfterErrorLeavingLoop(idx, n) == n + 1

\* "continue" in the except clause: on to the next unit
AfterError(idx, n) == idx + 1

\* update_feedstock raised: "except Exception as e" records it
RecordError ==
    /\ pc = "raised"
    /\ errors' = Append(errors, ErrorEntry(ecosystem, units[unit_idx], exc))
    /\ unit_idx' = AfterError(unit_idx, Len(units))
    /\ pc' = "loop"
    /\ CallOver
    /\ UNCHANGED <<ecosystem, resolverVars, dry_run, cloned, units, calls, updates_made,
                   updates_skipped>>

\* the loops are exhausted: the summary is printed
PrintSummary ==
    /\ pc = "loop" /\ unit_idx > Len(units)
    /\ pc' = "summary"
    /\ UNCHANGED <<ecosystem, gateVars, resolverVars, patchVars, unitVars, mainVars>>

Next ==
    \/ MainResolve \/ MainResolveRaises
    \/ CallUpdateFeedstock \/ ForkOrFetch \/ CheckoutBranch \/ ReadCurrentVersion
    \/ InlineGate \/ LeaveGate \/ CreateUpdateBranch
    \/ FetchGoHashes \/ FetchNodeHashes \/ RewriteRecipe \/ RewriteRaises
    \/ CommitRecipe \/ Rerender \/ PushBranch \/ CreatePullRequest
    \/ RecordResult \/ RecordError \/ PrintSummary

Spec == Init /\ [][Next]_vars

-----------------------------------------------------------------------------
(* The current-version readers called on their own, as the test does *)

\* a feedstock directory holding one recipe file or none
ReaderInit ==
    /\ pc = "read_version"
    /\ ecosystem \in {"utils", "go", "nodejs"}
    /\ recipe_file \in RecipeFiles(ecosystem)
    /\ lines \in Docs(ecosystem, recipe_file)
    /\ sha256_mappings = <<>>
    /\ updated_lines = <<>>
    /\ newline \in Newlines(recipe_file)
    /\ written_newline = ""
    /\ fetched = {}
    /\ commits = <<>>
    /\ GateIdle
    /\ ResolverIdle
    /\ MainIdle

ReaderNext == ReadCurrentVersion

SpecReader == ReaderInit /\ [][ReaderNext]_vars

-----------------------------------------------------------------------------
(* C1 *)

\* weight of one release position in the ordinal below; larger than any
\* component value of the model
OrdinalBase == 1000

\* the dotted number as one integer, missing components counting as zero:
\* the order of versions, stated without tuples
Ordinal(version_str) ==
    LET r == Release(version_str)
        at(i) == IF i <= Len(r) THEN r[i] ELSE 0
    IN  (at(1) * OrdinalBase + at(2)) * OrdinalBase + at(3)

\* C1: the gate decides proceed exactly when the current version is unknown
\* or the candidate is strictly greater than the current version (so a
\* candidate that is equal or older is skipped, and an unknown current
\* version always proceeds), in the shared function and in both inlined
\* copies.
C1_GateDecision ==
    pc = "gate_done" =>
        (needs_update = TRUE <=>
            \/ current_version = None
            \/ Ordinal(current_version) < Ordinal(new_version))

C1_Witness ==
    /\ pc = "gate_done"
    /\ current_version # None
    /\ current_version # new_version
    /\ Ordinal(current_version) = Ordinal(new_version)
    /\ needs_update = FALSE

-----------------------------------------------------------------------------
(* C2, C3 *)

\* the expected tag pattern, as the specification words it: the required
\* literal prefix ("go" with major version 1, or "v") directly followed by a
\* three-part dotted number and nothing else
ExpectedTag(eco, tag) ==
    /\ tag.suffix = ""
    /\ Len(tag.ver) = 3
    /\ IF eco = "go" THEN tag.prefix = "go" /\ tag.ver[1] = <<1>>
                     ELSE tag.prefix = "v"

\* the matching tags of the fetched list that belong to series s, the series
\* being the leading components of the tag's number as written
TagsOfSeries(s) ==
    {i \in 1..Len(tags) :
        /\ ExpectedTag(ecosystem, tags[i])
        /\ SubSeq(tags[i].ver, 1, Len(s)) = s}

Reorderings(list) ==
    {[i \in 1..Len(list) |-> list[f[i]]] : f \in Permutations(1..Len(list))}

\* C3: any permutation of the fetched tag list resolves to the identical
\* map, the same keys with the same version strings.
C3_OrderIndependent ==
    pc = "resolved" =>
        \A other \in Reorderings(tags) :
            latest_versions(ecosystem, other, target_series) = latest_by_series
-----------------------------------------------------------------------------
(* C4 .. C8: the rewritten recipe *)

\* the categories of the specification, told by what the line declares
IsVersionDeclaration(line) == line.kind \in {"setver", "version"}

IsBuildNumber(line) == line.kind = "number"

IsChecksum(line) == line.kind = "sha"

LineNumbers == 1..Len(lines)

C6_VersionReadBack ==
    (pc = "commit" /\ CurrentVersion(ecosystem, recipe_file, lines) # None)
        => CurrentVersion(ecosystem, recipe_file, updated_lines) = new_version

\* the lines the backward search reaches from line i when the start of the
\* document does not cut it short
Window(i) == Max(1, i - (Lookback - 1))..(i - 1)

UrlLinesAbove(i) == {j \in Window(i) : lines[j].kind = "url"}

\* C7: in a Go meta.yaml, a checksum line whose nearest URL line above,
\* within the lookback window, names (placeholders substituted) a key u of
\* the hash mapping carries HashMapping[u] in the written document,
\* wherever the pair sits in the document.
C7_ChecksumFromNearestUrl ==
    (pc = "commit" /\ ecosystem = "go") =>
        \A i \in LineNumbers :
            (/\ IsChecksum(lines[i]) /\ lines[i].indent > 0 /\ IsHex64(lines[i].digest)
             /\ UrlLinesAbove(i) # {})
            => LET j == CHOOSE k \in UrlLinesAbove(i) : \A m \in UrlLinesAbove(i) : m <= k
                   u == ExpandTemplate(lines[j].url, new_version)
               IN  u \in DOMAIN sha256_mappings
                      => updated_lines[i] = ShaSub(lines[i], sha256_mappings[u])

\* the platform of the last selector line above line i, NoPlatform if none
LastSelector(i) ==
    LET above == {j \in 1..(i - 1) : SelectorOf(lines[j]) # NoPlatform}
    IN  IF above = {} THEN NoPlatform
        ELSE SelectorOf(lines[CHOOSE k \in above : \A m \in above : m <= k])

\* no entry of the hash mapping resolves for the checksum on line i: no URL
\* line among the Lookback lines above names a key (Go), the platform in
\* force has no entry (recipe.yaml), there is no unix entry (Node meta.yaml)
Unresolved(i) ==
    IF ecosystem = "go"
    THEN \A j \in Max(1, i - Lookback)..(i - 1) :
            lines[j].kind = "url"
               => ExpandTemplate(lines[j].url, new_version) \notin DOMAIN sha256_mappings
    ELSE IF recipe_file = "recipe.yaml"
    THEN LastSelector(i) \notin DOMAIN sha256_mappings
    ELSE "unix" \notin DOMAIN sha256_mappings

\* a version declaration in the form the scan rewrites
IsPlainVersionDeclaration(line) ==
    \/ line.kind = "setver" /\ line.quote = "double"
    \/ line.kind = "version" /\ line.form = "bare"

\* the mapping when every hash is fetched
FullMapping ==
    IF ecosystem = "go" THEN get_go_sha256_mappings(new_version, GoUrls(new_version))
    ELSE get_nodejs_sha256_mappings(NodePlatforms)

-----------------------------------------------------------------------------
(* C9, C10: a run of main *)

\* the unit an entry of one of the three lists stands for
UnitKey(eco, entry) ==
    [feedstock |-> IF eco = "go" THEN entry.feedstock ELSE Feedstocks(eco)[1],
     series |-> entry.series]

\* how often unit k occurs in the list
Occurrences(list, k) ==
    Cardinality({i \in 1..Len(list) :
        UnitKey(ecosystem, list[i]) = UnitKey(ecosystem, units[k])})

Recorded(k) ==
    Occurrences(updates_made, k) + Occurrences(updates_skipped, k) + Occurrences(errors, k)

\* no unit is called twice, and the units before the current one are each in
\* exactly one list; at the summary that is every unit
C9_EachUnitOnce ==
    /\ \A k \in 1..Len(calls) : calls[k] = k
    /\ pc # "main" =>
          /\ \A k \in 1..Len(units) : Recorded(k) = (IF k < unit_idx THEN 1 ELSE 0)
          /\ Len(calls) \in {unit_idx - 1, unit_idx}
    /\ pc = "summary" =>
          /\ Len(calls) = Len(units)
          /\ Len(updates_made) + Len(updates_skipped) + Len(errors) = Len(units)

\* a unit that raised goes to the errors list with its reason, the other
\* lists stay, and the loop is at the next unit
C9_RaiseRecorded ==
    pc = "raised" =>
        /\ errors' = Append(errors, ErrorEntry(ecosystem, units[unit_idx], exc))
        /\ UnitKey(ecosystem, errors'[Len(errors')]) = UnitKey(ecosystem, units[unit_idx])
        /\ updates_made' = updates_made
        /\ updates_skipped' = updates_skipped
        /\ unit_idx' = unit_idx + 1
        /\ pc' = "loop"

\* C9: in main every unit of the resolved candidates is attempted exactly
\* once, whatever an earlier unit raised; a unit that raises is recorded in
\* the errors list and the loop goes on to the next unit; at the summary
\* every unit is in exactly one of updates_made, updates_skipped, errors.
C9_UnitFailureIsolation == [](C9_EachUnitOnce) /\ [][C9_RaiseRecorded]_vars

\* the first unit raised, a later one was updated, and the run reached the
\* summary
C9_Witness ==
    /\ pc = "summary"
    /\ Len(units) >= 2
    /\ errors # <<>>
    /\ UnitKey(ecosystem, errors[1]) = UnitKey(ecosystem, units[1])
    /\ updates_made # <<>>

\* the steps of update_feedstock after the dry-run test
LaterSteps ==
    {"checkout_b", "fetch_hashes", "write_recipe", "add", "commit", "rerender", "status",
     "add_all", "commit_rerender", "push", "pr_create"}

LaterPositions ==
    {"create_branch", "fetch_hashes", "rewrite", "commit", "rerender", "push", "create_pr"}

\* the gate's decision stated on the versions: proceed when nothing was read
\* or the candidate is strictly newer
GateProceeds ==
    \/ current_version = None
    \/ Ordinal(current_version) < Ordinal(new_version)

\* in a dry run no later step has run or is about to
C10_NoLaterStep ==
    dry_run =>
        /\ \A i \in 1..Len(effects) : effects[i] \notin LaterSteps
        /\ pc \notin LaterPositions
        /\ updated_lines = <<>>
        /\ sha256_mappings = <<>>

\* in a dry run the step after the gate's decision is the return, with
\* True exactly when the gate decided to proceed, and it runs nothing
C10_ReturnAtGate ==
    (dry_run /\ pc = "gate_done") =>
        /\ pc' = "returned"
        /\ (result' = TRUE <=> GateProceeds)
        /\ effects' = effects

\* C10: in a dry run a unit runs none of the steps after the gate (update
\* branch, hash fetch, recipe rewrite, commit, rerender, push, pull request),
\* and once the gate has decided it returns True exactly when the gate
\* decided to proceed.
C10_DryRunStopsAtGate == [](C10_NoLaterStep) /\ [][C10_ReturnAtGate]_vars

\* a dry run returned True for a unit whose recipe is behind
C10_Witness ==
    /\ dry_run
    /\ pc = "returned"
    /\ current_version # None
    /\ result = TRUE
    /\ Ordinal(current_version) < Ordinal(new_version)
    /\ effects # <<>>

-----------------------------------------------------------------------------
(* C11 .. C13: a run of main, continued *)

\* the commands of update_feedstock before the gate
EarlySteps == {"fork_clone", "fetch_upstream", "checkout", "pull"}

\* C11: in a dry run no unit runs any mutating step: over the whole run
\* nothing is forked, cloned, fetched into, checked out, pulled, written,
\* committed, pushed or opened as a pull request.
C11_DryRunChangesNothing ==
    dry_run => \A i \in 1..Len(effects) : effects[i] \notin (EarlySteps \cup LaterSteps)

Ran(step) == \E i \in 1..Len(effects) : effects[i] = step

LastEffect == IF effects = <<>> THEN "" ELSE effects[Len(effects)]

\* after the rerender warning: no status check and no rerender commit, the
\* unit is at the push of the branch with the rewritten recipe or beyond
\* it, raises only if the push or the pull request fails, and returns True
\* with the branch pushed and the pull request created
C12_AfterWarning ==
    /\ pc = "raised" => LastEffect # "rerender"
    /\ Ran("warn_rerender") =>
          /\ ~Ran("status") /\ ~Ran("add_all") /\ ~Ran("commit_rerender")
          /\ Ran("write_recipe") /\ Ran("commit")
          /\ pc \in {"push", "create_pr", "returned", "raised"}
          /\ pc = "raised" => LastEffect \in {"push", "pr_create"}
          /\ pc = "create_pr" => Ran("push")
          /\ pc = "returned" => (result = TRUE /\ Ran("push") /\ Ran("pr_create"))

\* the unit that returned after the warning goes to updates_made
C12_ReportedAsMade ==
    (pc = "returned" /\ Ran("warn_rerender")) =>
        /\ updates_made' = Append(updates_made, MadeEntry(ecosystem, units[unit_idx]))
        /\ UNCHANGED <<updates_skipped, errors>>

\* C12: when conda-smithy rerender exits non-zero the unit prints a warning,
\* makes no rerender commit, goes on to push the update branch with the
\* rewritten recipe and to create the pull request, and is recorded in
\* updates_made.
C12_RerenderFailureNotFatal == [](C12_AfterWarning) /\ [][C12_ReportedAsMade]_vars

\* a unit whose rerender failed was recorded as an update made
C12_Witness ==
    /\ pc = "returned"
    /\ Ran("warn_rerender")
    /\ Ran("push")
    /\ Ran("pr_create")
    /\ result = TRUE

\* C13: a network failure while fetching tags, the checksum manifest or an
\* artifact's bytes never ends the run: the run is never aborted by an
\* exception, and a unit whose hash fetch failed goes on to the rewrite
\* with the hashes it has.
C13_FetchFailureRecoverable ==
    /\ pc # "aborted"
    /\ ~(pc = "raised" /\ LastEffect = "fetch_hashes")

-----------------------------------------------------------------------------
(* C14, C16: reading the version of a recipe.yaml *)

\* the version: lines of a recipe.yaml that declare a value, bare or quoted
\* (a reference such as ${{ version }} declares none)
DeclaresValue(line) == line.kind = "version" /\ line.form \in {"bare", "quoted"}

\* the value declared on the first of the lines numbered in `at`, None when
\* there is none
FirstDeclared(doc, at) ==
    IF at = {} THEN None ELSE doc[CHOOSE i \in at : \A j \in at : i <= j].ver

\* C14: get_current_version_from_recipe returns the version of the recipe
\* file that is present: the value of the version: field when only
\* recipe.yaml exists, the value of the set version macro when only
\* meta.yaml exists, None when neither exists or no declaration is found.
C14_ReaderReturnsPresentVersion ==
    (pc = "gate" /\ ecosystem \in {"utils", "nodejs"}) =>
        current_version =
            (CASE recipe_file = "recipe.yaml" ->
                      FirstDeclared(lines, {i \in 1..Len(lines) : DeclaresValue(lines[i])})
               [] recipe_file = "meta.yaml" ->
                      FirstDeclared(lines, {i \in 1..Len(lines) : lines[i].kind = "setver"})
               [] OTHER -> None)

-----------------------------------------------------------------------------
(* C15: the recipe file read and written back *)

\* no line of the recipe is one the scan can replace
NothingToReplace == \A i \in LineNumbers : lines[i].kind \in {"other", "url", "if"}

\* C15: readlines() followed by writelines() with no replacement gives the
\* file back byte for byte, and with replacements every line terminator is
\* as it was and no line is added or dropped.
C15_DocumentRoundTrip ==
    pc = "commit" =>
        /\ NothingToReplace => (updated_lines = lines /\ written_newline = newline)
        /\ Len(updated_lines) = Len(lines)
        /\ written_newline = newline

-----------------------------------------------------------------------------
(* C16 .. C19: version and checksum lines of the two dialects *)

\* C16: in a recipe.yaml the version declaration is recognised with and
\* without quotes: the current version read is the declared value, and the
\* rewritten line carries the target version.
C16_QuotedVersionRecognised ==
    (pc = "commit" /\ recipe_file = "recipe.yaml") =>
        /\ current_version =
              FirstDeclared(lines, {i \in LineNumbers : DeclaresValue(lines[i])})
        /\ \A i \in LineNumbers :
              DeclaresValue(lines[i]) => updated_lines[i] = FieldSub(lines[i], new_version)

\* the key of the hash mapping each of the three selectors stands for
SelectorPlatform(cond) ==
    CASE cond = "unix" -> "unix"
      [] cond = "win-64" -> "win-x64"
      [] cond = "win-arm64" -> "win-arm64"
      [] OTHER -> NoPlatform

\* the selector lines above line i
SelectorsAbove(i) ==
    {j \in 1..(i - 1) : lines[j].kind = "if" /\ SelectorPlatform(lines[j].cond) # NoPlatform}

\* current_platform when the scan is at line i: that of the last selector
\* line above, NoPlatform (unconditional) before the first
PlatformAt(i) ==
    IF SelectorsAbove(i) = {} THEN NoPlatform
    ELSE SelectorPlatform(
             lines[CHOOSE k \in SelectorsAbove(i) : \A m \in SelectorsAbove(i) : m <= k].cond)

\* C17: in the scan of a recipe.yaml current_platform starts unconditional
\* and is set by each of the selector lines if: unix, if: target_platform ==
\* "win-64", if: target_platform == "win-arm64"; a checksum line is
\* rewritten to the digest the hash mapping has for current_platform exactly
\* when it has one, and is otherwise written back as read, as is every
\* checksum line above the first selector.
C17_StructuredChecksum ==
    (pc = "commit" /\ recipe_file = "recipe.yaml") =>
        \A i \in LineNumbers :
            ShaMatch(lines[i]) =>
                /\ PlatformAt(i) \in DOMAIN sha256_mappings
                      => updated_lines[i] = ShaSub(lines[i], sha256_mappings[PlatformAt(i)])
                /\ PlatformAt(i) \notin DOMAIN sha256_mappings
                      => updated_lines[i] = lines[i]
                /\ SelectorsAbove(i) = {} => updated_lines[i] = lines[i]

\* checksums under unix and under win-64, with a digest for unix only: the
\* first is rewritten, the second kept
C17_Witness ==
    /\ pc = "commit" /\ recipe_file = "recipe.yaml"
    /\ DOMAIN sha256_mappings = {"unix"}
    /\ \E i, j \in LineNumbers :
          /\ i < j
          /\ ShaMatch(lines[i]) /\ PlatformAt(i) = "unix"
          /\ updated_lines[i].digest = sha256_mappings["unix"]
          /\ ShaMatch(lines[j]) /\ PlatformAt(j) = "win-x64"
          /\ updated_lines[j] = lines[j]

\* the last if: line above line i, 0 when there is none
HeaderAbove(i) ==
    LET above == {j \in 1..(i - 1) : lines[j].kind = "if"}
    IN  IF above = {} THEN 0 ELSE CHOOSE k \in above : \A m \in above : m <= k

\* line i lies after the end of the last if: block above it: it is indented
\* no deeper than that block's header
AfterBlockEnd(i) ==
    HeaderAbove(i) # 0 /\ lines[i].indent <= lines[HeaderAbove(i)].indent

\* C18: in a recipe.yaml a checksum line that comes after the end of a
\* platform-conditional block, under no new selector, is not rewritten with
\* that block's platform digest.
C18_PlatformScopeEnds ==
    (pc = "commit" /\ recipe_file = "recipe.yaml") =>
        \A i \in LineNumbers :
            (ShaMatch(lines[i]) /\ AfterBlockEnd(i)) => updated_lines[i] = lines[i]

\* C19: in a meta.yaml a checksum line carrying an inline selector comment
\* is looked up by that selector, so checksum lines of different platforms
\* do not all receive one digest: a line marked # [win] is not given the
\* digest of the unix tarball, and two rewritten checksum lines with
\* different selector comments carry different digests.
C19_SelectorCommentPreferred ==
    (pc = "commit" /\ recipe_file = "meta.yaml") =>
        /\ \A i \in LineNumbers :
              (/\ ecosystem = "nodejs"
               /\ ShaMatch(lines[i])
               /\ lines[i].comment = "# [win]"
               /\ "unix" \in DOMAIN sha256_mappings)
                 => updated_lines[i].digest # sha256_mappings["unix"]
        /\ \A i, j \in LineNumbers :
              (/\ ShaMatch(lines[i]) /\ ShaMatch(lines[j])
               /\ lines[i].comment # lines[j].comment
               /\ updated_lines[i] # lines[i]
               /\ updated_lines[j] # lines[j])
                 => updated_lines[i].digest # updated_lines[j].digest

\* the keys the hash provider of the running script can return
ProviderKeys ==
    IF ecosystem = "go" THEN GoUrls(new_version) ELSE NodePlatforms

\* the mapping the provider returned has an entry for exactly the artifact
\* URLs whose download succeeded / the tracked files the manifest listed
C20_ExactlyTheFetched ==
    (ecosystem \in {"go", "nodejs"} /\ pc \in {"rewrite", "commit"}) =>
        /\ DOMAIN sha256_mappings = ProviderKeys \cap fetched
        /\ \A k \in DOMAIN sha256_mappings :
              sha256_mappings[k] = FullMapping[k]

\* the provider returns: the run goes on to the rewrite, nothing is raised
C20_ProviderReturns ==
    pc = "fetch_hashes" => (pc' = "rewrite" /\ exc' = exc)

\* C20: the hash providers return partial results instead of failing:
\* neither raises, get_go_sha256_mappings has an entry for exactly those of
\* the five URLs whose download succeeded, get_nodejs_sha256_mappings for
\* exactly those of the three tracked files the manifest lists, and the
\* empty mapping when the manifest fetch fails.
C20_PartialHashResults ==
    [](C20_ExactlyTheFetched) /\ [][C20_ProviderReturns]_vars

\* C20 witness: a Go run went on with the digests of four of the five URLs
\* after the download of the Linux tarball failed
C20_Witness ==
    /\ ecosystem = "go" /\ pc = "commit"
    /\ Cardinality(fetched) = 4
    /\ Cardinality(DOMAIN sha256_mappings) = 4
    /\ UrlText(GoDl, "go", "", new_version, "linux-amd64.tar.gz") \notin DOMAIN sha256_mappings

\* the place of a feedstock in the declared list
FeedstockIndex(eco, feedstock) ==
    CHOOSE i \in 1..Len(Feedstocks(eco)) : Feedstocks(eco)[i] = feedstock

\* unit a comes before unit b: by the series number, and within a series by
\* the declared order of the feedstocks
UnitBefore(a, b) ==
    \/ Ordinal(a.series) < Ordinal(b.series)
    \/ /\ a.series = b.series
       /\ FeedstockIndex(ecosystem, a.feedstock) < FeedstockIndex(ecosystem, b.feedstock)

\* the position in the loop of the unit an outcome entry stands for
UnitPosition(entry) ==
    CHOOSE k \in 1..Len(units) : UnitKey(ecosystem, units[k]) = UnitKey(ecosystem, entry)

\* the entries of an outcome list stand in the order of their units
InUnitOrder(list) ==
    \A i, j \in 1..Len(list) :
        i < j => /\ UnitPosition(list[i]) < UnitPosition(list[j])
                 /\ UnitBefore(UnitKey(ecosystem, list[i]), UnitKey(ecosystem, list[j]))

\* the units are in series order and, within a series, in feedstock order;
\* the calls made so far are the first units, in that order; a unit is under
\* way only between its call and its record; the lists keep the order
C21_UnitsInOrder ==
    /\ \A i, j \in 1..Len(units) : i < j => UnitBefore(units[i], units[j])
    /\ \A k \in 1..Len(calls) : calls[k] = k
    /\ (pc \notin {"main", "loop", "summary", "exit", "aborted"}) =>
          /\ Len(calls) = unit_idx
          /\ Len(updates_made) + Len(updates_skipped) + Len(errors) = unit_idx - 1
    /\ InUnitOrder(updates_made) /\ InUnitOrder(updates_skipped) /\ InUnitOrder(errors)

\* a unit starts only from the loop, after every earlier call was recorded
\* and with nothing of an earlier unit left under way
C21_StartAfterFinish ==
    calls' # calls =>
        /\ pc = "loop"
        /\ effects = <<>> /\ exc = "" /\ result = Unset
        /\ Len(updates_made) + Len(updates_skipped) + Len(errors) = Len(calls)
        /\ calls' = Append(calls, Len(calls) + 1)

\* C21: units are processed strictly one after another, in the sorted order
\* of their series and, within a series, in the declared order of the
\* feedstocks (go-feedstock before go-activation-feedstock); a unit never
\* starts before the previous one has finished, and the outcome lists
\* reflect that order.
C21_ProcessingOrder == [](C21_UnitsInOrder) /\ [][C21_StartAfterFinish]_vars

\* C21 witness: a Go run over two series fetched newest first reached the
\* summary with all four units recorded, two of them in one list
C21_Witness ==
    /\ pc = "summary" /\ ecosystem = "go"
    /\ Len(units) = 4 /\ Len(calls) = 4
    /\ units[1].feedstock = "go-feedstock" /\ units[2].feedstock = "go-activation-feedstock"
    /\ Ordinal(units[2].series) < Ordinal(units[3].series)
    /\ Len(updates_skipped) >= 2

\* the place of each step in the order of update_feedstock
StepRank(step) ==
    CASE step \in {"fork_clone", "fetch_upstream"} -> 1
      [] step = "checkout" -> 2
      [] step = "pull" -> 3
      [] step = "checkout_b" -> 5
      [] step = "fetch_hashes" -> 6
      [] step = "write_recipe" -> 7
      [] step = "add" -> 8
      [] step = "commit" -> 9
      [] step = "rerender" -> 10
      [] step \in {"warn_rerender", "status"} -> 11
      [] step = "add_all" -> 12
      [] step = "commit_rerender" -> 13
      [] step = "push" -> 14
      [] OTHER -> 15

\* the checked steps a unit has behind it when it pushes
StepsBeforePush ==
    {"checkout", "pull", "checkout_b", "fetch_hashes", "write_recipe", "add", "commit",
     "rerender"}

\* the steps so far are in the fixed order, none twice; the update branch is
\* created only after the gate decided proceed; a raised exception leaves the
\* unit where it is; the push has every earlier step behind it and the pull
\* request has the push behind it
C22_StepsInOrder ==
    /\ \A i, j \in 1..Len(effects) : i < j => StepRank(effects[i]) < StepRank(effects[j])
    /\ exc # "" => pc = "raised"
    /\ Ran("checkout_b") =>
          /\ Ran("pull")
          /\ needs_update = TRUE /\ GateProceeds
          /\ ~dry_run
    /\ (pc = "push" \/ Ran("push")) =>
          /\ \A step \in StepsBeforePush : Ran(step)
          /\ recipe_file # "none" /\ Len(updated_lines) = Len(lines)
          /\ commits # <<>> /\ commits[1] = "recipe"
    /\ (pc = "create_pr" \/ Ran("pr_create")) =>
          /\ Ran("push")
          /\ needs_update = TRUE /\ GateProceeds

\* a step is taken only while nothing was raised, the push only from the
\* position after the recipe commit and the rerender, the pull request only
\* from the position after the push; a unit that raised takes no further
\* step and goes to the errors list
C22_FailureStops ==
    /\ (effects' # effects /\ effects' # <<>>) => (exc = "" /\ pc # "raised")
    /\ (Ran("push")' /\ ~Ran("push")) =>
          /\ pc = "push"
          /\ LastEffect \in {"status", "commit_rerender", "warn_rerender"}
          /\ commits # <<>>
    /\ (Ran("pr_create")' /\ ~Ran("pr_create")) => (pc = "create_pr" /\ LastEffect = "push")
    /\ pc = "raised" => (pc' = "loop" /\ Len(errors') = Len(errors) + 1)

\* C22: within a non-dry-run unit the steps occur in one fixed order (branch
\* checkout, gate, update-branch creation, hash fetch, recipe rewrite, recipe
\* commit, rerender, push, pull request) and a failure of any checked step
\* stops the unit there: the push is never attempted unless the recipe
\* commit succeeded, and a pull request is never created unless the push
\* succeeded and the gate decided proceed.
C22_FixedStepOrder == [](C22_StepsInOrder) /\ [][C22_FailureStops]_vars

\* C22 witness: a unit ran every step up to the pull request and returned
\* True
C22_Witness ==
    /\ pc = "returned" /\ ~dry_run
    /\ Ran("commit_rerender") /\ Ran("push") /\ Ran("pr_create")
    /\ Len(effects) = 14
    /\ result = TRUE

\* the checkout or the pull of the series branch failed: the unit returns
\* False with nothing raised, the recipe not read and the gate not reached
C23_ReturnsFalse ==
    (pc = "checkout" /\ pc' # "read_version") =>
        /\ pc' = "returned"
        /\ result' = FALSE
        /\ exc' = ""
        /\ LastEffect' \in {"checkout", "pull"}
        /\ current_version' = None /\ recipe_file' = "none" /\ lines' = <<>>
        /\ needs_update' = needs_update

\* main files a unit that returned False under skipped, with its series, and
\* leaves the two other lists alone
C23_FiledAsSkipped ==
    (pc = "returned" /\ result = FALSE) =>
        /\ updates_skipped' = Append(updates_skipped, MadeEntry(ecosystem, units[unit_idx]))
        /\ errors' = errors
        /\ updates_made' = updates_made
        /\ pc' = "loop"

\* a unit that returned right after the checkout has taken no step after
\* the pull
C23_NoLaterStep ==
    (pc = "returned" /\ LastEffect \in {"checkout", "pull"}) =>
        \A i \in 1..Len(effects) :
            effects[i] \in {"fork_clone", "fetch_upstream", "checkout", "pull"}

\* C23: when checking out or pulling the series branch fails, the unit
\* returns False without reading the recipe or performing any later step,
\* and main records it in the skipped list (reported as already
\* up-to-date), not in the errors list.
C23_CheckoutFailureSkipped ==
    [](C23_NoLaterStep) /\ [][C23_ReturnsFalse /\ C23_FiledAsSkipped]_vars

\* C23 witness: a unit whose checkout failed (the pull was never run) is in
\* the skipped list, with no error recorded
C23_Witness ==
    /\ pc = "returned" /\ LastEffect = "checkout"
    /\ result = FALSE
    /\ current_version = None
    /\ errors = <<>>

\* C24: patching is idempotent: the line scan applied a second time, with
\* the same target version and the same hash mapping, to the document the
\* first scan wrote leaves every line unchanged, in both dialects.
C24_PatchIdempotent ==
    (pc = "commit" /\ recipe_file # "none") =>
        Scan(ecosystem, recipe_file, updated_lines, new_version, sha256_mappings)
            = updated_lines

\* C24 witness: the first scan rewrote a version declaration, a build number
\* and a checksum, so the second scan is run on changed lines
C24_Witness ==
    /\ pc = "commit" /\ recipe_file # "none"
    /\ \E i \in 1..Len(lines) :
          (MacroMatch(lines[i]) \/ FieldMatch(lines[i])) /\ updated_lines[i] # lines[i]
    /\ \E i \in 1..Len(lines) :
          ShaMatch(lines[i]) /\ updated_lines[i] # lines[i]
    /\ \E i \in 1..Len(lines) :
          NumberMatch(lines[i]) /\ updated_lines[i] # lines[i]

=============================================================================
